---- MODULE Spec2Model ----
(***************************************************************************)
(* Model of the AI Co-Creation panel (uxp-plugin/main.js): the generate,   *)
(* apply and refresh handlers running on one event loop, the panel         *)
(* controls, the session state (state.preview) and the Photoshop host.     *)
(*                                                                         *)
(* One action is one run-to-completion turn of the event loop: a handler   *)
(* from its start to its first pending await (continuations of promises    *)
(* that are already settled run as microtasks of the same turn), or the    *)
(* continuation that runs when a pending host call or timer settles.       *)
(*                                                                         *)
(* Text is a sequence of one-character strings; the characters U+00D7 and  *)
(* U+2022 and a lone UTF-16 surrogate are written as named tokens.  An     *)
(* optional value is a sequence of length 0 (absent) or 1 (present).       *)
(***************************************************************************)
EXTENDS Integers, Sequences, FiniteSets, TLC

\* ------------------------------------------------------------------ bounds
\* user actions (edits, clicks) and host changes in one behaviour
MaxEvents == 3

\* ------------------------------------------------------- optional values
None == <<>>
Some(v) == <<v>>
IsSome(o) == o # <<>>
Get(o) == o[1]

\* ------------------------------------------------------------ characters
Times == "U+00D7"
Bullet == "U+2022"
LoneSurrogate == "U+D800"
VerticalTab == "U+000B"
NoBreakSpace == "U+00A0"
ByteOrderMark == "U+FEFF"
LineSeparator == "U+2028"
ParagraphSeparator == "U+2029"
NL == "\n"

\* the concatenation of a sequence of texts
RECURSIVE Concat(_)
Concat(ss) ==
  IF Len(ss) = 0 THEN <<>>
  ELSE IF Len(ss) = 1 THEN ss[1]
  ELSE LET m == Len(ss) \div 2
       IN Concat(SubSeq(ss, 1, m)) \o Concat(SubSeq(ss, m + 1, Len(ss)))

DigitChars == <<"0", "1", "2", "3", "4", "5", "6", "7", "8", "9">>

\* `${n}` for a non-negative integer n
RECURSIVE NumberToText(_)
NumberToText(n) ==
  IF n < 10 THEN <<DigitChars[n + 1]>>
  ELSE NumberToText(n \div 10) \o <<DigitChars[(n % 10) + 1]>>

\* ---------------------------------------------------------- label tables
MODEL_LABELS ==
  ("qwen" :> <<"Q","w","e","n"," ","(","A","l","i","b","a","b","a",")">>) @@
  ("nano-banana" :> <<"G","o","o","g","l","e"," ","N","a","n","o"," ","B","a","n","a","n","a">>) @@
  ("grok" :> <<"x","A","I"," ","G","r","o","k">>) @@
  ("meta" :> <<"M","e","t","a"," ","A","I">>)

WORKFLOW_LABELS ==
  ("generate" :> <<"G","e","n","e","r","a","t","e"," ","n","e","w"," ","a","r","t","w","o","r","k">>) @@
  ("edit" :> <<"E","d","i","t"," ","c","u","r","r","e","n","t"," ","s","e","l","e","c","t","i","o","n">>) @@
  ("expand" :> <<"O","u","t","p","a","i","n","t"," ","b","e","y","o","n","d"," ","c","a","n","v","a","s">>)

\* the text of a picker value
KeyText ==
  ("qwen" :> <<"q","w","e","n">>) @@
  ("nano-banana" :> <<"n","a","n","o","-","b","a","n","a","n","a">>) @@
  ("grok" :> <<"g","r","o","k">>) @@
  ("meta" :> <<"m","e","t","a">>) @@
  ("generate" :> <<"g","e","n","e","r","a","t","e">>) @@
  ("edit" :> <<"e","d","i","t">>) @@
  ("expand" :> <<"e","x","p","a","n","d">>) @@
  ("mystery" :> <<"m","y","s","t","e","r","y">>) @@
  ("blend" :> <<"b","l","e","n","d">>) @@
  ("constructor" :> <<"c","o","n","s","t","r","u","c","t","o","r">>) @@
  ("__defineGetter__" :> <<"_","_","d","e","f","i","n","e","G","e","t","t","e","r","_","_">>) @@
  ("__defineSetter__" :> <<"_","_","d","e","f","i","n","e","S","e","t","t","e","r","_","_">>) @@
  ("hasOwnProperty" :> <<"h","a","s","O","w","n","P","r","o","p","e","r","t","y">>) @@
  ("__lookupGetter__" :> <<"_","_","l","o","o","k","u","p","G","e","t","t","e","r","_","_">>) @@
  ("__lookupSetter__" :> <<"_","_","l","o","o","k","u","p","S","e","t","t","e","r","_","_">>) @@
  ("isPrototypeOf" :> <<"i","s","P","r","o","t","o","t","y","p","e","O","f">>) @@
  ("propertyIsEnumerable" :> <<"p","r","o","p","e","r","t","y","I","s","E","n","u","m","e","r","a","b","l","e">>) @@
  ("toString" :> <<"t","o","S","t","r","i","n","g">>) @@
  ("valueOf" :> <<"v","a","l","u","e","O","f">>) @@
  ("toLocaleString" :> <<"t","o","L","o","c","a","l","e","S","t","r","i","n","g">>) @@
  ("__proto__" :> <<"_","_","p","r","o","t","o","_","_">>)

\* The members every object literal inherits from Object.prototype, as the
\* text a template literal or a string concatenation gives them.  The
\* tables of lines 3-14 are object literals: table[key] finds these too.
ObjectPrototype ==
  ("constructor" :> <<"f","u","n","c","t","i","o","n"," ","O","b","j","e","c","t","(",")"," ","{"," ","[","n","a","t","i","v","e"," ","c","o","d","e","]"," ","}">>) @@
  ("__defineGetter__" :> <<"f","u","n","c","t","i","o","n"," ","_","_","d","e","f","i","n","e","G","e","t","t","e","r","_","_","(",")"," ","{"," ","[","n","a","t","i","v","e"," ","c","o","d","e","]"," ","}">>) @@
  ("__defineSetter__" :> <<"f","u","n","c","t","i","o","n"," ","_","_","d","e","f","i","n","e","S","e","t","t","e","r","_","_","(",")"," ","{"," ","[","n","a","t","i","v","e"," ","c","o","d","e","]"," ","}">>) @@
  ("hasOwnProperty" :> <<"f","u","n","c","t","i","o","n"," ","h","a","s","O","w","n","P","r","o","p","e","r","t","y","(",")"," ","{"," ","[","n","a","t","i","v","e"," ","c","o","d","e","]"," ","}">>) @@
  ("__lookupGetter__" :> <<"f","u","n","c","t","i","o","n"," ","_","_","l","o","o","k","u","p","G","e","t","t","e","r","_","_","(",")"," ","{"," ","[","n","a","t","i","v","e"," ","c","o","d","e","]"," ","}">>) @@
  ("__lookupSetter__" :> <<"f","u","n","c","t","i","o","n"," ","_","_","l","o","o","k","u","p","S","e","t","t","e","r","_","_","(",")"," ","{"," ","[","n","a","t","i","v","e"," ","c","o","d","e","]"," ","}">>) @@
  ("isPrototypeOf" :> <<"f","u","n","c","t","i","o","n"," ","i","s","P","r","o","t","o","t","y","p","e","O","f","(",")"," ","{"," ","[","n","a","t","i","v","e"," ","c","o","d","e","]"," ","}">>) @@
  ("propertyIsEnumerable" :> <<"f","u","n","c","t","i","o","n"," ","p","r","o","p","e","r","t","y","I","s","E","n","u","m","e","r","a","b","l","e","(",")"," ","{"," ","[","n","a","t","i","v","e"," ","c","o","d","e","]"," ","}">>) @@
  ("toString" :> <<"f","u","n","c","t","i","o","n"," ","t","o","S","t","r","i","n","g","(",")"," ","{"," ","[","n","a","t","i","v","e"," ","c","o","d","e","]"," ","}">>) @@
  ("valueOf" :> <<"f","u","n","c","t","i","o","n"," ","v","a","l","u","e","O","f","(",")"," ","{"," ","[","n","a","t","i","v","e"," ","c","o","d","e","]"," ","}">>) @@
  ("toLocaleString" :> <<"f","u","n","c","t","i","o","n"," ","t","o","L","o","c","a","l","e","S","t","r","i","n","g","(",")"," ","{"," ","[","n","a","t","i","v","e"," ","c","o","d","e","]"," ","}">>) @@
  ("__proto__" :> <<"[","o","b","j","e","c","t"," ","O","b","j","e","c","t","]">>)

\* table[key] || fallback: an own key of the table, else an inherited
\* member (always truthy), else the fallback
Lookup(table, key, fallback) ==
  IF key \in DOMAIN table THEN table[key]
  ELSE IF key \in DOMAIN ObjectPrototype THEN ObjectPrototype[key]
  ELSE fallback

\* ------------------------------------------------- values of the controls
\* What String.prototype.trim removes: the WhiteSpace and LineTerminator
\* characters of ECMAScript (tab, line feed, vertical tab, form feed,
\* carriage return, space, no-break space, the Unicode space separators,
\* line and paragraph separator, byte order mark).
Whitespace ==
  {" ", "\t", NL, "\r", "\f", VerticalTab, NoBreakSpace, ByteOrderMark,
   LineSeparator, ParagraphSeparator,
   "U+1680", "U+2000", "U+2001", "U+2002", "U+2003", "U+2004", "U+2005",
   "U+2006", "U+2007", "U+2008", "U+2009", "U+200A", "U+202F", "U+205F",
   "U+3000"}
Prompts ==
  { <<>>, <<" ", "\t", "\r", NoBreakSpace>>, <<"\f", "a", NL>>,
    <<"a", LoneSurrogate>> }
Models == {"grok", "mystery"}
Workflows == {"edit", "blend"}
Strengths == {40, 75}

\* String.prototype.trim
RECURSIVE TrimStart(_)
TrimStart(s) ==
  IF s # <<>> /\ Head(s) \in Whitespace THEN TrimStart(Tail(s)) ELSE s

RECURSIVE TrimEnd(_)
TrimEnd(s) ==
  IF s # <<>> /\ s[Len(s)] \in Whitespace
  THEN TrimEnd(SubSeq(s, 1, Len(s) - 1)) ELSE s

TrimOmitted(s) == s

Trim(s) == TrimEnd(TrimStart(s))

\* --------------------------------------------------------------- escapeHtml
\* lines 259-262 without the replacement of & at line 258
EscapeCharKeepsAmpersand(c) ==
  CASE c = "<" -> <<"&","l","t",";">>
    [] c = ">" -> <<"&","g","t",";">>
    [] c = "\"" -> <<"&","q","u","o","t",";">>
    [] c = "'" -> <<"&","#","0","3","9",";">>
    [] OTHER -> <<c>>

EscapeChar(c) ==
  CASE c = "&" -> <<"&","a","m","p",";">>
    [] c = "<" -> <<"&","l","t",";">>
    [] c = ">" -> <<"&","g","t",";">>
    [] c = "\"" -> <<"&","q","u","o","t",";">>
    [] c = "'" -> <<"&","#","0","3","9",";">>
    [] OTHER -> <<c>>

escapeHtml(text) == Concat([i \in 1..Len(text) |-> EscapeChar(text[i])])

\* ----------------------------------------------------- percent-encoding
\* encodeURIComponent(c) followed by the three replace() calls of line 222
Unescaped ==
  {"A","B","C","D","E","F","G","H","I","J","K","L","M","N","O","P","Q","R",
   "S","T","U","V","W","X","Y","Z","a","b","c","d","e","f","g","h","i","j",
   "k","l","m","n","o","p","q","r","s","t","u","v","w","x","y","z",
   "0","1","2","3","4","5","6","7","8","9","-","_",".","!","~","*"}

PercentCode ==
  (" " :> <<"%","2","0">>) @@ (NL :> <<"%","0","A">>) @@
  ("\t" :> <<"%","0","9">>) @@ ("\"" :> <<"%","2","2">>) @@
  ("#" :> <<"%","2","3">>) @@ ("%" :> <<"%","2","5">>) @@
  ("&" :> <<"%","2","6">>) @@ ("'" :> <<"%","2","7">>) @@
  ("(" :> <<"%","2","8">>) @@ (")" :> <<"%","2","9">>) @@
  ("/" :> <<"%","2","F">>) @@ (":" :> <<"%","3","A">>) @@
  (";" :> <<"%","3","B">>) @@ ("<" :> <<"%","3","C">>) @@
  ("=" :> <<"%","3","D">>) @@ (">" :> <<"%","3","E">>) @@
  ("[" :> <<"%","5","B">>) @@ ("]" :> <<"%","5","D">>) @@
  ("{" :> <<"%","7","B">>) @@ ("}" :> <<"%","7","D">>) @@
  (Times :> <<"%","C","3","%","9","7">>) @@
  (Bullet :> <<"%","E","2","%","8","0","%","A","2">>) @@
  ("\r" :> <<"%","0","D">>) @@
  ("\f" :> <<"%","0","C">>) @@
  (VerticalTab :> <<"%","0","B">>) @@
  (NoBreakSpace :> <<"%","C","2","%","A","0">>) @@
  (ByteOrderMark :> <<"%","E","F","%","B","B","%","B","F">>) @@
  (LineSeparator :> <<"%","E","2","%","8","0","%","A","8">>) @@
  (ParagraphSeparator :> <<"%","E","2","%","8","0","%","A","9">>) @@
  ("U+1680" :> <<"%","E","1","%","9","A","%","8","0">>) @@
  ("U+2000" :> <<"%","E","2","%","8","0","%","8","0">>) @@
  ("U+2001" :> <<"%","E","2","%","8","0","%","8","1">>) @@
  ("U+2002" :> <<"%","E","2","%","8","0","%","8","2">>) @@
  ("U+2003" :> <<"%","E","2","%","8","0","%","8","3">>) @@
  ("U+2004" :> <<"%","E","2","%","8","0","%","8","4">>) @@
  ("U+2005" :> <<"%","E","2","%","8","0","%","8","5">>) @@
  ("U+2006" :> <<"%","E","2","%","8","0","%","8","6">>) @@
  ("U+2007" :> <<"%","E","2","%","8","0","%","8","7">>) @@
  ("U+2008" :> <<"%","E","2","%","8","0","%","8","8">>) @@
  ("U+2009" :> <<"%","E","2","%","8","0","%","8","9">>) @@
  ("U+200A" :> <<"%","E","2","%","8","0","%","8","A">>) @@
  ("U+202F" :> <<"%","E","2","%","8","0","%","A","F">>) @@
  ("U+205F" :> <<"%","E","2","%","8","1","%","9","F">>) @@
  ("U+3000" :> <<"%","E","3","%","8","0","%","8","0">>)

EncodeChar(c) == IF c \in Unescaped THEN <<c>> ELSE PercentCode[c]

EncodeText(s) == Concat([i \in 1..Len(s) |-> EncodeChar(s[i])])

\* encodeURIComponent throws URIError on a lone surrogate
IsMalformed(s) == \E i \in 1..Len(s) : s[i] = LoneSurrogate

\* the constant parts of the SVG template around the <pre> text, encoded
SvgHeadEncoded == "encoded(<svg ...><pre ...>)"
SvgTailEncoded == "encoded(</pre></body></foreignObject></svg>)"
DataUrlPrefix == "data:image/svg+xml,"

\* ------------------------------------------------------------------- host
\* A Photoshop document as the panel reads it: title and name (text, ""
\* when unset), width and height in px when the unit conversion exists,
\* and the resolution when the host reports one.
Documents ==
  { [title |-> <<"A">>, name |-> <<"A">>, width |-> Some(1024),
     height |-> Some(768), resolution |-> Some(72)],
    [title |-> <<>>, name |-> <<>>, width |-> None,
     height |-> None, resolution |-> None] }

\* error.message of the failures the host can produce
HostCheckError == <<"h","o","s","t">>
ModalError == <<"m","o","d","a","l">>
CreateLayerError == <<"l","a","y","e","r">>
NoDocumentError == <<"n","u","l","l">>
UriError == <<"U","R","I">>

\* outcomes of evaluating app.documents.length
CheckOutcomes == {"value", "throws"}
\* outcomes of action.batchPlay: a descriptor with a numeric
\* numberOfLayers, no usable descriptor, or a rejection
BatchPlayOutcomes == {"descriptor", "empty", "throws"}
\* outcomes of the awaited core.executeAsModal: the callback ran and
\* createLayer resolved, createLayer rejected, the callback threw on a
\* null app.activeDocument, or the modal scope was refused
ModalOutcomes == {"created", "createLayerThrows", "callbackThrew", "modalRefused"}
\* outcomes of document.createLayer
CreateLayerOutcomes == {"resolves", "rejects"}

\* ------------------------------------------------ fetchDocumentSummary
\* lines 186-188 without the test of the descriptor
fetchDocumentSummaryFinishKeepsCount(docSummary, outcome, h) ==
  [docSummary EXCEPT !.numberOfLayers = Some(Len(h.layers))]

\* Lines 169-193: the continuation after batchPlay settles.
fetchDocumentSummaryFinish(docSummary, outcome, h) ==
  IF outcome = "descriptor" /\ IsSome(h.doc)
  THEN [docSummary EXCEPT !.numberOfLayers = Some(Len(h.layers))]
  ELSE docSummary

\* Lines 149-193, as far as the call gets in the turn it is made in.  The
\* result is a rejection, a resolved null, the summary so far with
\* batchPlay pending, or, on a host that honours synchronousExecution
\* (line 182) and so settles batchPlay inside the call, the finished
\* summary.
fetchDocumentSummaryStart(h, check, outcome) ==
  IF check = "throws" THEN [kind |-> "throws", error |-> HostCheckError]
  ELSE IF ~IsSome(h.doc) THEN [kind |-> "null"]
  ELSE LET document == Get(h.doc)
           docSummary ==
             [name |-> IF document.title # <<>> THEN document.title
                       ELSE IF document.name # <<>> THEN document.name
                       ELSE <<"U","n","t","i","t","l","e","d">>,
              widthPx |-> document.width,
              heightPx |-> document.height,
              resolution |-> document.resolution,
              numberOfLayers |-> None]
       IN IF h.synchronousExecution
          THEN [kind |-> "summary",
                summary |-> fetchDocumentSummaryFinish(docSummary, outcome, h)]
          ELSE [kind |-> "pending", docSummary |-> docSummary]

\* ------------------------------------------------ formatDocumentSummary
formatDocumentSummary(summary) ==
  LET width == IF IsSome(summary.widthPx) /\ Get(summary.widthPx) # 0
               THEN NumberToText(Get(summary.widthPx)) \o <<" ","p","x">>
               ELSE <<"U","n","k","n","o","w","n"," ","w","i","d","t","h">>
      height == IF IsSome(summary.heightPx) /\ Get(summary.heightPx) # 0
                THEN NumberToText(Get(summary.heightPx)) \o <<" ","p","x">>
                ELSE <<"U","n","k","n","o","w","n"," ","h","e","i","g","h","t">>
      layers == IF IsSome(summary.numberOfLayers)
                THEN NumberToText(Get(summary.numberOfLayers)) \o <<" ","l","a","y","e","r","s">>
                ELSE <<"L","a","y","e","r"," ","c","o","u","n","t"," ","u","n","a","v","a","i","l","a","b","l","e">>
      resolution == IF IsSome(summary.resolution) /\ Get(summary.resolution) # 0
                    THEN NumberToText(Get(summary.resolution)) \o <<" ","p","p","i">>
                    ELSE <<"R","e","s","o","l","u","t","i","o","n"," ","u","n","k","n","o","w","n">>
  IN summary.name \o <<NL>> \o width \o <<" ", Times, " ">> \o height
       \o <<NL>> \o layers \o <<NL>> \o resolution

NoDocumentText ==
  <<"N","o"," ","P","h","o","t","o","s","h","o","p"," ","d","o","c","u","m",
    "e","n","t"," ","d","e","t","e","c","t","e","d",".">>

ErrorInfoText(message) ==
  <<"E","r","r","o","r"," ","l","o","a","d","i","n","g"," ","d","o","c","u",
    "m","e","n","t"," ","i","n","f","o",":"," ">> \o message

\* ------------------------------------------------------ simulatePreview
YesNo(b) == IF b THEN <<"Y","e","s">> ELSE <<"N","o">>

PreviewText(el, prompt) ==
  LET modelLabel == Lookup(MODEL_LABELS, el.modelPicker,
                           <<"C","u","s","t","o","m"," ","m","o","d","e","l">>)
      workflowLabel == Lookup(WORKFLOW_LABELS, el.workflowPicker,
                              <<"W","o","r","k","f","l","o","w">>)
  IN <<"M","o","d","e","l",":"," ">> \o modelLabel \o <<NL>>
     \o <<"W","o","r","k","f","l","o","w",":"," ">> \o workflowLabel \o <<NL>>
     \o <<"S","t","r","e","n","g","t","h",":"," ">>
     \o NumberToText(el.strengthSlider) \o <<"%", NL>>
     \o <<"P","r","e","s","e","r","v","e"," ","S","u","b","j","e","c","t",":"," ">>
     \o YesNo(el.seamlessSwitch) \o <<NL>>
     \o <<"R","e","s","p","e","c","t"," ","M","a","s","k",":"," ">>
     \o YesNo(el.maskSwitch) \o <<NL>>
     \o <<"P","r","o","m","p","t",":"," ">> \o prompt \o <<NL>>
     \o el.documentInfo

\* The synchronous part of simulatePreview: either encodeURIComponent
\* throws, or the data URL the timer will resolve with is fixed.
simulatePreview(el, prompt) ==
  LET text == PreviewText(el, prompt)
  IN IF IsMalformed(text)
     THEN [kind |-> "throws", error |-> UriError]
     ELSE [kind |-> "pending",
           url |-> <<DataUrlPrefix, SvgHeadEncoded>>
                     \o EncodeText(escapeHtml(text)) \o <<SvgTailEncoded>>]

\* --------------------------------------------- setStatus, setProcessing
setStatus(el, status, message, detail) ==
  [el EXCEPT !.statusText =
     [textContent |-> [message |-> message, detail |-> detail],
      status |-> status]]

\* variants of setProcessing with one term of line 249 dropped
setProcessingIgnoresBusy(el, pv, isProcessing) ==
  LET e1 == [el EXCEPT !.generateButton = isProcessing,
                       !.refreshButton = isProcessing,
                       !.progressBar = ~isProcessing,
                       !.applyButton = ~IsSome(pv)]
  IN IF ~IsSome(pv)
     THEN [e1 EXCEPT !.previewPlaceholder.hidden = FALSE,
                     !.previewImage.hidden = TRUE]
     ELSE e1

setProcessingIgnoresPreview(el, pv, isProcessing) ==
  LET e1 == [el EXCEPT !.generateButton = isProcessing,
                       !.refreshButton = isProcessing,
                       !.progressBar = ~isProcessing,
                       !.applyButton = isProcessing]
  IN IF ~IsSome(pv)
     THEN [e1 EXCEPT !.previewPlaceholder.hidden = FALSE,
                     !.previewImage.hidden = TRUE]
     ELSE e1

setProcessing(el, pv, isProcessing) ==
  LET e1 == [el EXCEPT !.generateButton = isProcessing,
                       !.refreshButton = isProcessing,
                       !.progressBar = ~isProcessing,
                       !.applyButton = isProcessing \/ ~IsSome(pv)]
  IN IF ~IsSome(pv)
     THEN [e1 EXCEPT !.previewPlaceholder.hidden = FALSE,
                     !.previewImage.hidden = TRUE]
     ELSE e1

\* ------------------------------------------------------------------ state
VARIABLES
  elements,   \* the panel's DOM elements as the handlers read and write them
  state,      \* the session state: state.preview
  host,       \* Photoshop: the active document, the layers created in it,
              \* and whether batchPlay settles inside the call (line 182)
  loaded,     \* init() has run
  generate,   \* the handleGenerate call in flight, if any
  apply,      \* the handleApply call awaiting executeAsModal, if any
  refreshes,  \* updateDocumentInfo calls awaiting batchPlay, in start order
  lastEvent,  \* what the last turn of the event loop did
  lastCalls,  \* the calls the last turn made
  uncaught,   \* the last turn left a rejected promise that nothing handles
  nEvents,    \* user actions and host changes so far
  probe,      \* a function called on its own: its inputs and its result
  writeOrder  \* for each pending refresh, whether a fetch started after it
              \* has written the readout; and whether the readout shows
              \* the result of such an overtaken fetch

vars == <<elements, state, host, loaded, generate, apply, refreshes,
          lastEvent, lastCalls, uncaught, nEvents, probe, writeOrder>>

NoPreview == None

Event(op, detail) == [op |-> op, detail |-> detail]

\* The panel as its markup declares it, before init() runs.
PanelMarkup ==
  [promptInput |-> <<>>,
   modelPicker |-> "grok",
   workflowPicker |-> "edit",
   strengthSlider |-> 40,
   strengthValue |-> <<"4","0","%">>,
   seamlessSwitch |-> TRUE,
   maskSwitch |-> FALSE,
   generateButton |-> FALSE,
   applyButton |-> TRUE,
   refreshButton |-> FALSE,
   statusText |-> [textContent |-> [message |-> "Ready", detail |-> <<>>],
                   status |-> "idle"],
   progressBar |-> TRUE,
   previewImage |-> [src |-> None, hidden |-> TRUE],
   previewPlaceholder |-> [hidden |-> FALSE, textContent |-> "markup"],
   documentInfo |-> <<".">>]

IdleGenerate == [pc |-> "idle"]

\* The panel before init() runs; the prompt is whatever text the user has
\* typed by the first event a behaviour looks at.
\* no updateDocumentInfo has been called
NoWrites == [pending |-> <<>>, stale |-> FALSE]

\* no function is being called on its own
NoProbe == [fn |-> "none"]

Init ==
  /\ \E p \in Prompts : elements = [PanelMarkup EXCEPT !.promptInput = p]
  /\ state = [preview |-> NoPreview]
  /\ host \in {[doc |-> d, layers |-> <<>>, synchronousExecution |-> b] :
                 d \in {None} \cup {Some(x) : x \in Documents}, b \in BOOLEAN}
  /\ loaded = FALSE
  /\ generate = IdleGenerate
  /\ apply = [pc |-> "idle"]
  /\ refreshes = <<>>
  /\ lastEvent = Event("none", "-")
  /\ lastCalls = <<>>
  /\ uncaught = FALSE
  /\ nEvents = 0
  /\ probe = NoProbe
  /\ writeOrder = NoWrites

\* ------------------------------------------------------ updateDocumentInfo
\* Lines 136-146 up to the first pending await: the readout and the list of
\* pending refreshes after updateDocumentInfo was called by `owner`.
updateDocumentInfoStart(el, pending, h, check, outcome, owner) ==
  LET r == fetchDocumentSummaryStart(h, check, outcome)
  IN CASE r.kind = "throws" ->
            [elements |-> [el EXCEPT !.documentInfo = ErrorInfoText(r.error)],
             refreshes |-> pending, settled |-> TRUE]
       [] r.kind = "null" ->
            [elements |-> [el EXCEPT !.documentInfo = NoDocumentText],
             refreshes |-> pending, settled |-> TRUE]
       [] r.kind = "summary" ->
            [elements |-> [el EXCEPT !.documentInfo =
                                       formatDocumentSummary(r.summary)],
             refreshes |-> pending, settled |-> TRUE]
       [] OTHER ->
            [elements |-> el,
             refreshes |-> Append(pending, [owner |-> owner, docSummary |-> r.docSummary]),
             settled |-> FALSE]

\* The order of the writes to the readout (lines 139-141 and 144).  A call
\* that settles in the turn it starts writes after every earlier write, so
\* every call still pending is overtaken; a call left pending is not.
writeOrderAfterStart(order, settled) ==
  IF settled
  THEN [pending |-> [j \in 1..Len(order.pending) |-> TRUE], stale |-> FALSE]
  ELSE [pending |-> Append(order.pending, FALSE), stale |-> order.stale]

\* ------------------------------------------------------------------- init
init ==
  /\ ~loaded
  /\ loaded' = TRUE
  /\ \E check \in CheckOutcomes, outcome \in BatchPlayOutcomes :
       LET u == updateDocumentInfoStart(elements, refreshes, host, check,
                                        outcome, "init")
       IN /\ elements' = u.elements
          /\ refreshes' = u.refreshes
          /\ writeOrder' = writeOrderAfterStart(writeOrder, u.settled)
  /\ uncaught' = FALSE
  /\ lastEvent' = Event("init", "-")
  /\ lastCalls' = <<"fetchDocumentSummary">>
  /\ UNCHANGED <<state, host, generate, apply, nEvents, probe>>

\* ------------------------------------------------------------ user edits
Edit(field, value) ==
  /\ loaded
  /\ nEvents < MaxEvents
  /\ elements[field] # value
  /\ elements' = [elements EXCEPT ![field] = value]
  /\ nEvents' = nEvents + 1
  /\ uncaught' = FALSE
  /\ lastEvent' = Event("edit", field)
  /\ lastCalls' = <<>>
  /\ UNCHANGED <<state, host, loaded, generate, apply, refreshes, writeOrder, probe>>

EditPrompt == \E p \in Prompts : Edit("promptInput", p)
EditModel == \E m \in Models : Edit("modelPicker", m)
EditWorkflow == \E w \in Workflows : Edit("workflowPicker", w)
ToggleSeamless == Edit("seamlessSwitch", ~elements.seamlessSwitch)
ToggleMask == Edit("maskSwitch", ~elements.maskSwitch)

\* the slider's input listener, lines 39-41
EditStrength ==
  \E v \in Strengths :
    /\ loaded
    /\ nEvents < MaxEvents
    /\ elements.strengthSlider # v
    /\ elements' = [elements EXCEPT !.strengthSlider = v,
                                    !.strengthValue = NumberToText(v) \o <<"%">>]
    /\ nEvents' = nEvents + 1
    /\ uncaught' = FALSE
    /\ lastEvent' = Event("edit", "strengthSlider")
    /\ lastCalls' = <<>>
    /\ UNCHANGED <<state, host, loaded, generate, apply, refreshes, writeOrder, probe>>

\* ------------------------------------------------------------ host changes
\* the document a pending createLayer was called on (line 121 read it) is
\* no longer the active document
TargetLost(a) ==
  IF a.pc = "createLayer" THEN [a EXCEPT !.active = FALSE] ELSE a

HostOpenDocument ==
  \E d \in Documents :
    /\ nEvents < MaxEvents
    /\ host.doc # Some(d)
    /\ host' = [host EXCEPT !.doc = Some(d), !.layers = <<>>]
    /\ nEvents' = nEvents + 1
    /\ uncaught' = FALSE
    /\ lastEvent' = Event("hostOpen", "-")
    /\ lastCalls' = <<>>
    /\ apply' = TargetLost(apply)
    /\ UNCHANGED <<elements, state, loaded, generate, refreshes, writeOrder, probe>>

HostCloseDocument ==
  /\ nEvents < MaxEvents
  /\ IsSome(host.doc)
  /\ host' = [host EXCEPT !.doc = None, !.layers = <<>>]
  /\ nEvents' = nEvents + 1
  /\ uncaught' = FALSE
  /\ lastEvent' = Event("hostClose", "-")
  /\ lastCalls' = <<>>
  /\ apply' = TargetLost(apply)
  /\ UNCHANGED <<elements, state, loaded, generate, refreshes, writeOrder, probe>>

\* --------------------------------------------------------- handleGenerate
\* the controls a generate is configured by
Configuration(el) ==
  [model |-> el.modelPicker,
   workflow |-> el.workflowPicker,
   strength |-> el.strengthSlider,
   preserveSubject |-> el.seamlessSwitch,
   respectMask |-> el.maskSwitch]

\* lines 67-71
handleGenerateBegin(el, pv) ==
  LET e1 == setStatus(setProcessing(el, pv, TRUE), "pending",
                      "Contacting AI service...", <<>>)
  IN [e1 EXCEPT !.previewPlaceholder = [hidden |-> FALSE,
                                        textContent |-> "Generating preview..."],
                !.previewImage.hidden = TRUE]

\* lines 79-87 without the documentSummary of line 87
PreviewRecordWithoutSummary(el, prompt, previewUrl, documentSummary) ==
  [url |-> previewUrl,
   prompt |-> prompt,
   model |-> el.modelPicker,
   workflow |-> el.workflowPicker,
   strength |-> el.strengthSlider,
   preserveSubject |-> el.seamlessSwitch,
   respectMask |-> el.maskSwitch]

\* lines 79-88: the record stored when both awaited calls have resolved
PreviewRecord(el, prompt, previewUrl, documentSummary) ==
  [url |-> previewUrl,
   prompt |-> prompt,
   model |-> el.modelPicker,
   workflow |-> el.workflowPicker,
   strength |-> el.strengthSlider,
   preserveSubject |-> el.seamlessSwitch,
   respectMask |-> el.maskSwitch,
   documentSummary |-> documentSummary]

\* lines 90-96 and the finally block, given the stored record
handleGenerateResolve(el, record) ==
  LET e1 == [el EXCEPT !.previewImage = [src |-> Some(record.url), hidden |-> FALSE],
                       !.previewPlaceholder.hidden = TRUE,
                       !.applyButton = FALSE]
      e2 == setStatus(e1, "success",
              "Preview generated. Apply to Photoshop to insert a placeholder layer.",
              <<>>)
  IN setProcessing(e2, Some(record), FALSE)

\* the catch block without the finally block
handleGenerateCatchStaysBusy(el, pv, message) ==
  setStatus(el, "error", "Preview failed: ", message)

\* the catch and finally blocks, lines 97-102
handleGenerateCatch(el, pv, message) ==
  setProcessing(setStatus(el, "error", "Preview failed: ", message), pv, FALSE)

\* The click turn of handleGenerate: validation, lines 67-71, and the two
\* calls of Promise.all up to their first pending await.
handleGenerate ==
  /\ loaded
  /\ ~elements.generateButton
  /\ nEvents < MaxEvents
  /\ nEvents' = nEvents + 1
  /\ \E check \in CheckOutcomes, outcome \in BatchPlayOutcomes :
       LET prompt == Trim(elements.promptInput)
           e1 == handleGenerateBegin(elements, state.preview)
           f == fetchDocumentSummaryStart(host, check, outcome)
           s == simulatePreview(e1, prompt)
       IN IF prompt = <<>>
          THEN /\ elements' = setStatus(elements, "warning",
                   "Please enter a prompt before generating a preview.", <<>>)
               /\ uncaught' = FALSE
               /\ lastEvent' = Event("generateRejected", "-")
               /\ lastCalls' = <<>>
               /\ UNCHANGED generate
          ELSE IF s.kind = "throws" \/ f.kind = "throws"
          THEN /\ elements' = handleGenerateCatch(e1, state.preview,
                                IF s.kind = "throws" THEN s.error ELSE f.error)
               \* line 76 throws before Promise.all is called: the promise
               \* line 75 returned is dropped, and if it is rejected nothing
               \* handles the rejection
               /\ uncaught' = (s.kind = "throws" /\ f.kind = "throws")
               /\ lastEvent' = Event("generateFailed",
                                [fetchDocumentSummary |-> f.kind,
                                 simulatePreview |-> s.kind])
               /\ lastCalls' = <<"fetchDocumentSummary", "simulatePreview">>
               /\ UNCHANGED generate
          ELSE /\ elements' = e1
               /\ generate' =
                    [pc |-> "pending",
                     prompt |-> prompt,
                     url |-> s.url,
                     timer |-> "pending",
                     fetch |-> IF f.kind = "pending" THEN "pending" ELSE "done",
                     documentSummary |->
                       CASE f.kind = "null" -> None
                         [] f.kind = "summary" -> Some(f.summary)
                         [] OTHER -> Some(f.docSummary),
                     clicked |-> Configuration(elements)]
               /\ uncaught' = FALSE
               /\ lastEvent' = Event("generateStarted",
                                [fetchDocumentSummary |-> f.kind,
                                 simulatePreview |-> s.kind])
               /\ lastCalls' = <<"fetchDocumentSummary", "simulatePreview">>
  /\ UNCHANGED <<state, host, loaded, apply, refreshes, writeOrder, probe>>

\* the continuation of Promise.all once both calls have resolved
GenerateResolved(documentSummary) ==
  LET record == PreviewRecord(elements, generate.prompt, generate.url,
                              documentSummary)
  IN /\ state' = [state EXCEPT !.preview = Some(record)]
     /\ elements' = handleGenerateResolve(elements, record)
     /\ generate' = IdleGenerate
     /\ uncaught' = FALSE
     /\ lastEvent' = Event("generateSucceeded", "-")

\* batchPlay of the generate's fetchDocumentSummary settles
GenerateFetchSettled ==
  /\ generate.pc = "pending"
  /\ generate.fetch = "pending"
  /\ \E outcome \in BatchPlayOutcomes :
       LET summary == Some(fetchDocumentSummaryFinish(
                             Get(generate.documentSummary), outcome, host))
       IN IF generate.timer = "done"
          THEN GenerateResolved(summary)
          ELSE /\ generate' = [generate EXCEPT !.fetch = "done",
                                               !.documentSummary = summary]
               /\ uncaught' = FALSE
               /\ lastEvent' = Event("generateFetchSettled", "-")
               /\ UNCHANGED <<elements, state>>
  /\ lastCalls' = <<>>
  /\ UNCHANGED <<host, loaded, apply, refreshes, writeOrder, nEvents, probe>>

\* the 500 ms timer of simulatePreview fires
GenerateTimerFired ==
  /\ generate.pc = "pending"
  /\ generate.timer = "pending"
  /\ IF generate.fetch = "done"
     THEN GenerateResolved(generate.documentSummary)
     ELSE /\ generate' = [generate EXCEPT !.timer = "done"]
          /\ uncaught' = FALSE
          /\ lastEvent' = Event("generateTimerFired", "-")
          /\ UNCHANGED <<elements, state>>
  /\ lastCalls' = <<>>
  /\ UNCHANGED <<host, loaded, apply, refreshes, writeOrder, nEvents, probe>>

\* ------------------------------------------------------------ handleApply
\* lines 106-114: the two checks before the try block
ApplyValidation(pv, h, check) ==
  IF ~IsSome(pv) THEN "noPreview"
  ELSE IF check = "throws" THEN "throws"
  ELSE IF ~IsSome(h.doc) THEN "noDocument"
  ELSE "ok"

\* line 122
LayerName(pv) ==
  Lookup(MODEL_LABELS, pv.model, <<"A","I">>) \o <<" ", Bullet, " ">>
    \o KeyText[pv.workflow]

\* The click turn of handleApply.
handleApply ==
  /\ loaded
  /\ ~elements.applyButton
  /\ nEvents < MaxEvents
  /\ nEvents' = nEvents + 1
  /\ \E check \in CheckOutcomes :
       LET v == ApplyValidation(state.preview, host, check)
       IN CASE v = "noPreview" ->
                 /\ elements' = setStatus(elements, "warning",
                                  "Generate a preview before applying.", <<>>)
                 /\ lastEvent' = Event("applyRejected", v)
                 /\ lastCalls' = <<>>
                 /\ uncaught' = FALSE
                 /\ UNCHANGED apply
            [] v = "throws" ->
                 /\ uncaught' = TRUE
                 /\ lastEvent' = Event("applyThrew", v)
                 /\ lastCalls' = <<>>
                 /\ UNCHANGED <<elements, apply>>
            [] v = "noDocument" ->
                 /\ elements' = setStatus(elements, "warning",
                                  "Open a Photoshop document to apply the AI result.", <<>>)
                 /\ lastEvent' = Event("applyRejected", v)
                 /\ lastCalls' = <<>>
                 /\ uncaught' = FALSE
                 /\ UNCHANGED apply
            [] OTHER ->
                 /\ elements' = setStatus(
                                  setProcessing(elements, state.preview, TRUE),
                                  "pending",
                                  "Creating Photoshop layer placeholder...", <<>>)
                 /\ apply' = [pc |-> "modal"]
                 /\ lastEvent' = Event("applyStarted", "-")
                 /\ lastCalls' = <<"executeAsModal">>
                 /\ uncaught' = FALSE
  /\ UNCHANGED <<state, host, loaded, generate, refreshes, writeOrder, probe>>

\* lines 126-129 without the setProcessing(false) of the finally block
handleApplyFinishStaysBusy(el, pv, outcome, message) ==
  IF outcome = "created"
  THEN setStatus(el, "success",
         "Placeholder layer created. Replace its contents with the generated pixels from your service.",
         <<>>)
  ELSE setStatus(el, "error", "Could not apply result: ", message)

\* lines 126-131: the status after the awaited executeAsModal settled, and
\* the first statement of the finally block
handleApplyFinish(el, pv, outcome, message) ==
  setProcessing(
    IF outcome = "created"
    THEN setStatus(el, "success",
           "Placeholder layer created. Replace its contents with the generated pixels from your service.",
           <<>>)
    ELSE setStatus(el, "error", "Could not apply result: ", message),
    pv, FALSE)

\* a refresh placed at the end of the try block instead
ApplyRefreshesOnSuccess(outcome) == outcome = "created"

\* does handleApply refresh the document summary after the mutation
\* attempt: the finally block runs for every outcome
ApplyRefreshes(outcome) == TRUE

\* error.message of a failed executeAsModal
ApplyMessage(outcome) ==
  CASE outcome = "modalRefused" -> ModalError
    [] outcome = "callbackThrew" -> NoDocumentError
    [] outcome = "createLayerThrows" -> CreateLayerError
    [] OTHER -> <<>>

\* Lines 120-123: the modal scope is granted and runs the callback up to
\* its await.  With no active document, document.createLayer throws on
\* null and the callback's promise is rejected.
executeAsModalCallback ==
  /\ apply.pc = "modal"
  /\ IF IsSome(host.doc)
     THEN /\ apply' = [pc |-> "createLayer",
                       layerName |-> LayerName(Get(state.preview)),
                       active |-> TRUE]
          /\ lastCalls' = <<"createLayer">>
          /\ lastEvent' = Event("applyCallback", "createLayer")
     ELSE /\ apply' = [pc |-> "scope", outcome |-> "callbackThrew"]
          /\ lastCalls' = <<>>
          /\ lastEvent' = Event("applyCallback", "threw")
  /\ uncaught' = FALSE
  /\ UNCHANGED <<elements, state, host, loaded, generate, refreshes, writeOrder,
                 nEvents, probe>>

\* Line 123: document.createLayer settles.  The layer is created in the
\* document the callback read, which shows in host.layers if that document
\* is still the active one.
CreateLayerSettled ==
  /\ apply.pc = "createLayer"
  /\ \E outcome \in CreateLayerOutcomes :
       /\ host' = IF outcome = "resolves" /\ apply.active
                  THEN [host EXCEPT !.layers = Append(@, apply.layerName)]
                  ELSE host
       /\ apply' = [pc |-> "scope",
                    outcome |-> IF outcome = "resolves" THEN "created"
                                ELSE "createLayerThrows"]
       /\ lastEvent' = Event("applyCreateLayerSettled", outcome)
  /\ lastCalls' = <<>>
  /\ uncaught' = FALSE
  /\ UNCHANGED <<elements, state, loaded, generate, refreshes, writeOrder,
                 nEvents, probe>>

\* The awaited executeAsModal settles (a scope that was refused settles
\* without running the callback); the rest of handleApply runs up to the
\* pending await inside updateDocumentInfo, lines 126-132.
ApplySettled ==
  /\ apply.pc \in {"modal", "scope"}
  /\ \E check \in CheckOutcomes, batchPlay \in BatchPlayOutcomes :
       LET outcome == IF apply.pc = "modal" THEN "modalRefused" ELSE apply.outcome
           e1 == handleApplyFinish(elements, state.preview, outcome,
                                   ApplyMessage(outcome))
           u == updateDocumentInfoStart(e1, refreshes, host, check,
                                        batchPlay, "apply")
       IN /\ IF ApplyRefreshes(outcome)
             THEN /\ elements' = u.elements
                  /\ refreshes' = u.refreshes
                  /\ writeOrder' = writeOrderAfterStart(writeOrder, u.settled)
                  /\ lastCalls' = <<"fetchDocumentSummary">>
             ELSE /\ elements' = e1
                  /\ UNCHANGED <<refreshes, writeOrder>>
                  /\ lastCalls' = <<>>
          /\ uncaught' = FALSE
          /\ lastEvent' = Event("applySettled", outcome)
  /\ apply' = [pc |-> "idle"]
  /\ UNCHANGED <<state, host, loaded, generate, nEvents, probe>>

\* ------------------------------------------------------------------ refresh
\* the Refresh button's click listener, lines 51-53
RefreshClick ==
  /\ loaded
  /\ ~elements.refreshButton
  /\ nEvents < MaxEvents
  /\ nEvents' = nEvents + 1
  /\ \E check \in CheckOutcomes, outcome \in BatchPlayOutcomes :
       LET u == updateDocumentInfoStart(elements, refreshes, host, check,
                                        outcome, "click")
       IN /\ elements' = u.elements
          /\ refreshes' = u.refreshes
          /\ writeOrder' = writeOrderAfterStart(writeOrder, u.settled)
          /\ lastEvent' = Event("refreshClicked", check)
  /\ uncaught' = FALSE
  /\ lastCalls' = <<"fetchDocumentSummary">>
  /\ UNCHANGED <<state, host, loaded, generate, apply, probe>>

RemoveAt(q, i) == SubSeq(q, 1, i - 1) \o SubSeq(q, i + 1, Len(q))

\* the pending call at position i writes the readout: it is overtaken if a
\* later-started call wrote before, and it overtakes every call started
\* before it that is still pending
writeOrderAfterSettle(order, i) ==
  [pending |-> RemoveAt([j \in 1..Len(order.pending) |->
                           IF j < i THEN TRUE ELSE order.pending[j]], i),
   stale |-> order.pending[i]]

\* batchPlay of a pending updateDocumentInfo settles, lines 139-141
RefreshSettled ==
  /\ \E i \in 1..Len(refreshes), outcome \in BatchPlayOutcomes :
       LET r == refreshes[i]
           summary == fetchDocumentSummaryFinish(r.docSummary, outcome, host)
       IN /\ elements' = [elements EXCEPT !.documentInfo = formatDocumentSummary(summary)]
          /\ refreshes' = RemoveAt(refreshes, i)
          /\ writeOrder' = writeOrderAfterSettle(writeOrder, i)
          /\ uncaught' = FALSE
          /\ lastEvent' = Event("refreshSettled", r.owner)
  /\ lastCalls' = <<>>
  /\ UNCHANGED <<state, host, loaded, generate, apply, nEvents, probe>>

\* ---------------------------------------------------------- specification
Next ==
  \/ init
  \/ EditPrompt
  \/ EditModel
  \/ EditWorkflow
  \/ EditStrength
  \/ ToggleSeamless
  \/ ToggleMask
  \/ HostOpenDocument
  \/ HostCloseDocument
  \/ handleGenerate
  \/ GenerateFetchSettled
  \/ GenerateTimerFired
  \/ handleApply
  \/ executeAsModalCallback
  \/ CreateLayerSettled
  \/ ApplySettled
  \/ RefreshClick
  \/ RefreshSettled

Spec == Init /\ [][Next]_vars

\* ---------------------------------------------- functions on their own
\* The panel before DOMContentLoaded: the specifications below call one
\* function of main.js on its own and leave the panel alone.
panelVars == <<elements, state, loaded, generate, apply, refreshes, writeOrder,
               lastEvent, lastCalls, uncaught, nEvents>>

PanelAtRest ==
  /\ elements = PanelMarkup
  /\ state = [preview |-> NoPreview]
  /\ loaded = FALSE
  /\ generate = IdleGenerate
  /\ apply = [pc |-> "idle"]
  /\ refreshes = <<>>
  /\ writeOrder = NoWrites
  /\ lastEvent = Event("none", "-")
  /\ lastCalls = <<>>
  /\ uncaught = FALSE
  /\ nEvents = 0

\* fetchDocumentSummary() against a host with or without a document and
\* up to MaxLayers layers
MaxLayers == 3

LayerNames(n) == [i \in 1..n |-> <<"L">>]

ProbeHosts ==
  {[doc |-> d, layers |-> LayerNames(n), synchronousExecution |-> b] :
     d \in {None} \cup {Some(x) : x \in Documents}, n \in 0..MaxLayers,
     b \in BOOLEAN}

InitFetch ==
  /\ PanelAtRest
  /\ host \in ProbeHosts
  /\ probe \in {[fn |-> "fetchDocumentSummary", pc |-> "called", check |-> c] :
                  c \in CheckOutcomes}

\* lines 149-193: the call runs up to the await of a pending batchPlay, or
\* to its end
FetchCalled ==
  /\ probe.fn = "fetchDocumentSummary" /\ probe.pc = "called"
  /\ \E outcome \in BatchPlayOutcomes :
       LET r == fetchDocumentSummaryStart(host, probe.check, outcome)
       IN probe' = IF r.kind = "summary"
                   THEN [fn |-> "fetchDocumentSummary",
                         pc |-> "settled",
                         check |-> probe.check,
                         docAtCall |-> host.doc,
                         outcome |-> outcome,
                         result |-> r]
                   ELSE [fn |-> "fetchDocumentSummary",
                         pc |-> IF r.kind = "pending" THEN "awaiting"
                                ELSE "settled",
                         check |-> probe.check,
                         docAtCall |-> host.doc,
                         result |-> r]
  /\ UNCHANGED <<host, panelVars>>

\* the host while batchPlay is pending: the document is closed, replaced,
\* or its layers change
FetchHostChanged ==
  /\ probe.fn = "fetchDocumentSummary" /\ probe.pc = "awaiting"
  /\ ~("changed" \in DOMAIN probe)
  /\ host' \in ProbeHosts \ {host}
  /\ probe' = [fn |-> probe.fn, pc |-> probe.pc, check |-> probe.check,
               docAtCall |-> probe.docAtCall, result |-> probe.result,
               changed |-> TRUE]
  /\ UNCHANGED panelVars

\* lines 170-193: batchPlay settles and the function returns
FetchBatchPlaySettled ==
  /\ probe.fn = "fetchDocumentSummary" /\ probe.pc = "awaiting"
  /\ \E outcome \in BatchPlayOutcomes :
       probe' = [fn |-> "fetchDocumentSummary",
                 pc |-> "settled",
                 check |-> probe.check,
                 docAtCall |-> probe.docAtCall,
                 outcome |-> outcome,
                 result |-> [kind |-> "summary",
                             summary |-> fetchDocumentSummaryFinish(
                                           probe.result.docSummary, outcome, host)]]
  /\ UNCHANGED <<host, panelVars>>

NextFetch == FetchCalled \/ FetchHostChanged \/ FetchBatchPlaySettled

SpecFetch == InitFetch /\ [][NextFetch]_vars

\* escapeHtml(text), and the reader of the escaped text
\* The character references an XML or HTML parser resolves in text content
\* (the ones escapeHtml can produce, and their usual other spellings).
CharacterReferences ==
  { [text |-> <<"&","a","m","p",";">>, char |-> "&"],
    [text |-> <<"&","l","t",";">>, char |-> "<"],
    [text |-> <<"&","g","t",";">>, char |-> ">"],
    [text |-> <<"&","q","u","o","t",";">>, char |-> "\""],
    [text |-> <<"&","a","p","o","s",";">>, char |-> "'"],
    [text |-> <<"&","#","0","3","9",";">>, char |-> "'"],
    [text |-> <<"&","#","3","9",";">>, char |-> "'"] }

\* the longest reference text
MaxReferenceLen == 6

\* the references whose text stands at position i of s
ReferencesAt(s, i) ==
  {r \in CharacterReferences :
     /\ i + Len(r.text) - 1 <= Len(s)
     /\ SubSeq(s, i, i + Len(r.text) - 1) = r.text}

\* position i lies inside a reference that starts before it
InsideReference(s, i) ==
  \E j \in (IF i > MaxReferenceLen THEN i - MaxReferenceLen + 1 ELSE 1)..(i - 1) :
    \E r \in ReferencesAt(s, j) : i <= j + Len(r.text) - 1

\* Entity unescaping: every character reference becomes its character,
\* every other character stays.  No reference text contains "&" after its
\* first character, so the references found in a text never overlap.
unescapeHtml(s) ==
  Concat([i \in 1..Len(s) |->
            IF InsideReference(s, i) THEN <<>>
            ELSE IF ReferencesAt(s, i) # {}
                 THEN <<(CHOOSE r \in ReferencesAt(s, i) : TRUE).char>>
                 ELSE <<s[i]>>])

\* texts are built from up to MaxFragments fragments: the five escaped
\* characters, plain characters, and entity-like text
MaxFragments == 3

Fragments ==
  { <<"&">>, <<"<">>, <<">">>, <<"\"">>, <<"'">>, <<"a">>, <<";">>, <<"#">>,
    <<"&","l","t",";">>, <<"&","a","m","p",";">>, <<"a","m","p",";">>,
    <<"&","#","0","3","9",";">> }

Texts == {Concat(fs) : fs \in UNION {[1..n -> Fragments] : n \in 0..MaxFragments}}

InitEscape ==
  /\ PanelAtRest
  /\ host = [doc |-> None, layers |-> <<>>, synchronousExecution |-> FALSE]
  /\ probe \in {[fn |-> "escapeHtml", pc |-> "called", text |-> t] : t \in Texts}

\* lines 256-263
EscapeCalled ==
  /\ probe.fn = "escapeHtml" /\ probe.pc = "called"
  /\ probe' = [fn |-> "escapeHtml", pc |-> "returned", text |-> probe.text,
               escaped |-> escapeHtml(probe.text)]
  /\ UNCHANGED <<host, panelVars>>

\* the escaped text is read back, as the renderer of line 217's <pre> does
EscapedTextRead ==
  /\ probe.fn = "escapeHtml" /\ probe.pc = "returned"
  /\ probe' = [fn |-> "escapeHtml", pc |-> "read", text |-> probe.text,
               escaped |-> probe.escaped,
               unescaped |-> unescapeHtml(probe.escaped)]
  /\ UNCHANGED <<host, panelVars>>

NextEscape == EscapeCalled \/ EscapedTextRead

SpecEscape == InitEscape /\ [][NextEscape]_vars

\* simulatePreview(elements, prompt), and the reader of its data URL
\* decodeURIComponent on the output of EncodeText: "%" starts an escape of
\* two hex digits, and escapes are grouped into UTF-8 sequences.
EscapeUnits(s) ==
  Concat([i \in 1..Len(s) |->
            IF s[i] = "%" THEN << SubSeq(s, i, i + 2) >>
            ELSE IF (i > 1 /\ s[i-1] = "%") \/ (i > 2 /\ s[i-2] = "%")
                 THEN <<>>
                 ELSE << <<s[i]>> >>])

IsContinuation(u) == Len(u) = 3 /\ u[2] \in {"8", "9", "A", "B"}

SequenceLen(u) ==
  IF Len(u) = 1 THEN 1
  ELSE CASE u[2] \in {"C", "D"} -> 2
         [] u[2] = "E" -> 3
         [] u[2] = "F" -> 4
         [] OTHER -> 1

decodeURIComponent(s) ==
  LET units == EscapeUnits(s)
  IN Concat([j \in 1..Len(units) |->
               IF IsContinuation(units[j]) THEN <<>>
               ELSE IF Len(units[j]) = 1 THEN units[j]
               ELSE LET code == Concat(SubSeq(units, j, j + SequenceLen(units[j]) - 1))
                    IN <<CHOOSE c \in DOMAIN PercentCode : PercentCode[c] = code>>])

\* the text shown in the <pre> of the artifact: the data URL without its
\* prefix and the encoded template around the text, decoded and unescaped
ArtifactText(url) ==
  unescapeHtml(decodeURIComponent(SubSeq(url, 3, Len(url) - 1)))

PreviewPrompts == { <<"a">>, <<"<","&","l","t",";","'">>, <<"a", LoneSurrogate>> }
PreviewModels == DOMAIN MODEL_LABELS \cup {"mystery", "constructor", "__proto__"}
PreviewWorkflows == DOMAIN WORKFLOW_LABELS \cup {"blend", "valueOf"}
PreviewStrengths == {0, 75}
PreviewReadouts ==
  { NoDocumentText,
    formatDocumentSummary([name |-> <<"A">>, widthPx |-> Some(1024),
                           heightPx |-> None, resolution |-> Some(72),
                           numberOfLayers |-> Some(2)]) }

InitPreview ==
  /\ PanelAtRest
  /\ host = [doc |-> None, layers |-> <<>>, synchronousExecution |-> FALSE]
  /\ probe \in
       {[fn |-> "simulatePreview", pc |-> "called", prompt |-> p,
         elements |-> [PanelMarkup EXCEPT !.modelPicker = m,
                                          !.workflowPicker = w,
                                          !.strengthSlider = n,
                                          !.seamlessSwitch = ps,
                                          !.maskSwitch = rm,
                                          !.documentInfo = d]] :
          p \in PreviewPrompts, m \in PreviewModels, w \in PreviewWorkflows,
          n \in PreviewStrengths, ps \in BOOLEAN, rm \in BOOLEAN,
          d \in PreviewReadouts}

\* lines 196-229, called twice with the same arguments
PreviewCalled ==
  /\ probe.fn = "simulatePreview" /\ probe.pc = "called"
  /\ LET first == simulatePreview(probe.elements, probe.prompt)
         second == simulatePreview(probe.elements, probe.prompt)
     IN probe' = [fn |-> "simulatePreview",
                  pc |-> IF first.kind = "throws" THEN "threw" ELSE "returned",
                  prompt |-> probe.prompt, elements |-> probe.elements,
                  first |-> first, second |-> second]
  /\ UNCHANGED <<host, panelVars>>

\* the data URL of the first call is loaded by the preview image
ArtifactRead ==
  /\ probe.fn = "simulatePreview" /\ probe.pc = "returned"
  /\ probe' = [fn |-> "simulatePreview", pc |-> "read",
               prompt |-> probe.prompt, elements |-> probe.elements,
               first |-> probe.first, second |-> probe.second,
               text |-> ArtifactText(probe.first.url)]
  /\ UNCHANGED <<host, panelVars>>

NextPreview == PreviewCalled \/ ArtifactRead

SpecPreview == InitPreview /\ [][NextPreview]_vars

\* the calls in flight: each settling step changes one of them
pendingCalls == <<generate, apply, refreshes>>

\* Every pending host call and the preview timer eventually settle.
FairSpec ==
  /\ Spec
  /\ WF_pendingCalls(GenerateFetchSettled)
  /\ WF_pendingCalls(GenerateTimerFired)
  /\ WF_pendingCalls(executeAsModalCallback \/ ApplySettled)
  /\ WF_pendingCalls(CreateLayerSettled)
  /\ WF_pendingCalls(RefreshSettled)

\* ============================================================ properties
Generating == generate.pc = "pending"
Applying == apply.pc # "idle"

ApplyOwned(q) == {i \in 1..Len(q) : q[i].owner = "apply"}

\* handleGenerate and handleApply calls that were issued and have not
\* returned: an apply has returned when its trailing updateDocumentInfo has
InFlight ==
  (IF Generating THEN 1 ELSE 0) + (IF Applying THEN 1 ELSE 0)
    + Cardinality(ApplyOwned(refreshes))

Count(call, calls) == Cardinality({i \in 1..Len(calls) : calls[i] = call})

IsBlank(s) == \A i \in 1..Len(s) : s[i] \in Whitespace

GenerateOps == {"generateRejected", "generateFailed", "generateStarted"}
ApplyOps == {"applyRejected", "applyThrew", "applyStarted"}

Buttons(el) == <<el.generateButton, el.applyButton, el.refreshButton>>

\* el2 differs from el1 in the status line only
OnlyStatusChanged(el1, el2) == el2 = [el1 EXCEPT !.statusText = el2.statusText]

\* C1: at most one generate-or-apply call is in flight: a call is issued
\* only when every earlier call, with everything it awaits (an apply's
\* trailing document refresh included), has returned.
C1_OneCallInFlight == InFlight <= 1

\* C2: while a generate or an apply is between setProcessing(true) and
\* setProcessing(false), the Generate, Refresh and Apply buttons are all
\* disabled.
C2_BusyDisablesButtons ==
  (Generating \/ Applying) =>
    /\ elements.generateButton
    /\ elements.refreshButton
    /\ elements.applyButton

\* a generate is pending while an earlier preview is held: only the busy
\* state keeps Apply disabled
C2_Witness ==
  /\ Generating
  /\ IsSome(state.preview)
  /\ elements.generateButton /\ elements.refreshButton /\ elements.applyButton

\* C3: the configuration stored by a successful generate is the one the
\* controls held when Generate was clicked, whatever was edited meanwhile.
C3_SnapshotAtClick ==
  [][lastEvent'.op = "generateSucceeded" =>
       LET pv == Get(state'.preview)
       IN /\ pv.prompt = generate.prompt
          /\ [model |-> pv.model, workflow |-> pv.workflow,
              strength |-> pv.strength,
              preserveSubject |-> pv.preserveSubject,
              respectMask |-> pv.respectMask] = generate.clicked]_vars

\* C4: Apply is disabled whenever state.preview is null, and it is enabled
\* in the state a successful generate ends in.
C4_ApplyFollowsPreview ==
  /\ ~IsSome(state.preview) => elements.applyButton
  /\ lastEvent.op = "generateSucceeded" => ~elements.applyButton

C4_Witness ==
  /\ lastEvent.op = "generateSucceeded"
  /\ IsSome(state.preview)
  /\ ~elements.applyButton

\* C5: a generate request with an empty or whitespace-only prompt calls
\* neither fetchDocumentSummary nor simulatePreview, does not enter the busy
\* state, leaves state.preview and the buttons alone and only sets a
\* warning status.
C5_BlankPromptRejected ==
  [][(lastEvent'.op \in GenerateOps /\ IsBlank(elements.promptInput)) =>
       /\ lastEvent'.op = "generateRejected"
       /\ lastCalls' = <<>>
       /\ generate' = generate
       /\ state' = state
       /\ Buttons(elements') = Buttons(elements)
       /\ OnlyStatusChanged(elements, elements')
       /\ elements'.statusText.status = "warning"
       /\ host' = host /\ refreshes' = refreshes /\ apply' = apply]_vars

\* a whitespace-only prompt was rejected
C5_Witness ==
  /\ lastEvent.op = "generateRejected"
  /\ elements.promptInput # <<>>
  /\ elements.statusText.status = "warning"
  /\ ~Generating /\ ~elements.generateButton

\* C6: an apply is carried out only if a Preview Record exists and a
\* document is open.  With the record absent or no document open the
\* request is rejected with a warning status: nothing is mutated or
\* refreshed, the busy state is not entered and state.preview and the
\* buttons are unchanged.
C6_ApplyNeedsPreviewAndDocument ==
  [][(lastEvent'.op \in ApplyOps
        /\ (~IsSome(state.preview) \/ ~IsSome(host.doc))) =>
       /\ lastEvent'.op = "applyRejected"
       /\ elements'.statusText.status = "warning"
       /\ lastCalls' = <<>>
       /\ host' = host
       /\ refreshes' = refreshes
       /\ apply' = apply
       /\ state' = state
       /\ Buttons(elements') = Buttons(elements)
       /\ OnlyStatusChanged(elements, elements')]_vars

\* C7: every apply that passed validation starts exactly one refresh of the
\* document summary, in the turn in which its mutation attempt settles and
\* after that attempt, whether the attempt succeeded or threw; the refresh
\* writes the readout in that turn or is left pending and writes it when it
\* settles.
C7_OneRefreshAfterApply ==
  [][/\ lastEvent'.op = "applyStarted" =>
          /\ Count("fetchDocumentSummary", lastCalls') = 0
          /\ refreshes' = refreshes
          /\ elements'.documentInfo = elements.documentInfo
     /\ lastEvent'.op = "applySettled" =>
          /\ Count("fetchDocumentSummary", lastCalls') = 1
          /\ lastCalls'[Len(lastCalls')] = "fetchDocumentSummary"
          /\ \/ /\ Len(refreshes') = Len(refreshes) + 1
                /\ SubSeq(refreshes', 1, Len(refreshes)) = refreshes
                /\ refreshes'[Len(refreshes')].owner = "apply"
             \/ /\ refreshes' = refreshes
                /\ elements'.documentInfo
                     \in {NoDocumentText, ErrorInfoText(HostCheckError)}
             \/ /\ refreshes' = refreshes
                /\ host.synchronousExecution /\ IsSome(host.doc)
                /\ \E outcome \in BatchPlayOutcomes :
                     elements'.documentInfo = formatDocumentSummary(
                       fetchDocumentSummaryStart(host, "value", outcome).summary)
     /\ Cardinality(ApplyOwned(refreshes')) > Cardinality(ApplyOwned(refreshes))
          => lastEvent'.op = "applySettled"
     /\ (lastEvent'.op = "refreshSettled" /\ lastEvent'.detail = "apply") =>
          /\ Cardinality(ApplyOwned(refreshes'))
               = Cardinality(ApplyOwned(refreshes)) - 1
          /\ \E i \in 1..Len(refreshes), outcome \in BatchPlayOutcomes :
               elements'.documentInfo = formatDocumentSummary(
                 fetchDocumentSummaryFinish(refreshes[i].docSummary, outcome, host))
    ]_vars

\* a failed mutation attempt has settled and its refresh is pending
C7_Witness ==
  /\ lastEvent.op = "applySettled"
  /\ lastEvent.detail # "created"
  /\ elements.statusText.status = "error"
  /\ Cardinality(ApplyOwned(refreshes)) = 1

\* C8: a generate succeeds only if fetchDocumentSummary and simulatePreview
\* both succeed; if either fails the attempt fails, the status shows the
\* error's message, state.preview is what it was and the busy state is
\* cleared.
C8_GenerateFailsAsAWhole ==
  [][/\ lastEvent'.op \in {"generateFailed", "generateStarted"} =>
          (lastEvent'.op = "generateFailed"
             <=> \/ lastEvent'.detail.fetchDocumentSummary = "throws"
                 \/ lastEvent'.detail.simulatePreview = "throws")
     /\ lastEvent'.op = "generateFailed" =>
          /\ state' = state
          /\ generate' = generate /\ ~Generating'
          /\ elements'.statusText.status = "error"
          /\ elements'.statusText.textContent.message = "Preview failed: "
          /\ elements'.statusText.textContent.detail
               = IF IsMalformed(Trim(elements.promptInput))
                 THEN UriError ELSE HostCheckError
          /\ ~elements'.generateButton
          /\ ~elements'.refreshButton
          /\ elements'.progressBar
          /\ elements'.applyButton = ~IsSome(state.preview)
     /\ lastEvent'.op = "generateSucceeded" =>
          /\ Generating
          /\ generate.clicked \in [model : Models, workflow : Workflows,
                                   strength : Strengths,
                                   preserveSubject : BOOLEAN,
                                   respectMask : BOOLEAN]
          /\ ~IsMalformed(generate.prompt)
    ]_vars

\* a regenerate failed on the document check while a preview was held
C8_Witness ==
  /\ lastEvent.op = "generateFailed"
  /\ lastEvent.detail.fetchDocumentSummary = "throws"
  /\ IsSome(state.preview)
  /\ elements.statusText.status = "error"
  /\ ~elements.generateButton

\* the turns of an apply
ApplyTurns ==
  ApplyOps \cup {"applyCallback", "applyCreateLayerSettled", "applySettled"}

\* C9: an apply issues one executeAsModal with at most one createLayer in
\* it, adds exactly one layer when it succeeds, never writes state.preview,
\* and shows an error status when a host call of it fails.
C9_ApplyFrame ==
  [][/\ lastEvent'.op \in ApplyTurns => state' = state
     /\ lastEvent'.op = "applyStarted" =>
          /\ lastCalls' = <<"executeAsModal">>
          /\ ~Applying
     /\ lastEvent'.op \in ApplyTurns \ {"applyStarted"} =>
          Count("executeAsModal", lastCalls') = 0
     /\ lastEvent'.op = "applyCallback" =>
          /\ apply.pc = "modal" /\ apply'.pc # "modal"
          /\ Count("createLayer", lastCalls') <= 1
     /\ lastEvent'.op \in ApplyTurns \ {"applyCallback"} =>
          Count("createLayer", lastCalls') = 0
     /\ lastEvent'.op \in ApplyTurns =>
          Len(host'.layers) - Len(host.layers)
            = (IF /\ lastEvent'.op = "applyCreateLayerSettled"
                  /\ lastEvent'.detail = "resolves"
                  /\ apply.active
               THEN 1 ELSE 0)
     /\ (lastEvent'.op = "applySettled" /\ lastEvent'.detail = "created") =>
          apply.pc = "scope"
     /\ \/ lastEvent'.op = "applyThrew"
        \/ (lastEvent'.op = "applySettled" /\ lastEvent'.detail # "created")
        => elements'.statusText.status = "error"
    ]_vars

\* C10: no handler ends in a rejected promise and no rejected promise is left
\* without a handler: every host-call failure is
\* caught and turned into status text.
C10_NothingUncaught == ~uncaught


\* C11: if every host call and the preview timer eventually settle, a panel
\* whose Generate or Refresh button is disabled (a generate or an apply is
\* busy) eventually has both enabled again, whatever failed.
C11_BusyEventuallyCleared ==
  (elements.generateButton \/ elements.refreshButton)
    ~> (~elements.generateButton /\ ~elements.refreshButton
          /\ ~Generating /\ ~Applying)

\* a failed apply has left the busy state
C11_Witness ==
  /\ lastEvent.op = "applySettled"
  /\ lastEvent.detail # "created"
  /\ ~elements.generateButton /\ ~elements.refreshButton
  /\ ~Generating /\ ~Applying


\* C12: fetchDocumentSummary returns null exactly when no document is open
\* at its check; with a document open, a batchPlay that throws or yields no
\* numeric numberOfLayers is never thrown to the caller: the summary comes
\* back with name, widthPx, heightPx and resolution as read from the
\* document and numberOfLayers absent.
C12_SummaryContract ==
  (probe.fn = "fetchDocumentSummary" /\ probe.pc = "settled") =>
    /\ probe.result.kind \in {"null", "summary"} =>
         (probe.result.kind = "null" <=> ~IsSome(probe.docAtCall))
    /\ probe.result.kind = "throws" => probe.check = "throws"
    /\ (probe.result.kind = "summary" /\ probe.outcome \in {"empty", "throws"}) =>
         LET document == Get(probe.docAtCall)
             summary == probe.result.summary
         IN /\ summary.name = (IF document.title # <<>> THEN document.title
                               ELSE IF document.name # <<>> THEN document.name
                               ELSE <<"U","n","t","i","t","l","e","d">>)
            /\ summary.widthPx = document.width
            /\ summary.heightPx = document.height
            /\ summary.resolution = document.resolution
            /\ ~IsSome(summary.numberOfLayers)

\* batchPlay was rejected with a document open and layers in it, and the
\* summary came back
C12_Witness ==
  /\ probe.fn = "fetchDocumentSummary" /\ probe.pc = "settled"
  /\ probe.result.kind = "summary"
  /\ probe.outcome = "throws"
  /\ IsSome(host.doc) /\ Len(host.layers) > 0


\* C13: the layers that apply created in the open document all have
\* different names, over any sequence of successful applies, repeated
\* applies of the same Preview Record included.
C13_LayerNamesUnique ==
  \A i, j \in 1..Len(host.layers) :
    host.layers[i] = host.layers[j] => i = j


\* C14: unescaping the result of escapeHtml gives back the original text,
\* for texts with &, <, >, ", ' and for texts that already contain
\* entity-like text such as &lt; or &amp;amp;.
C14_EscapeRoundTrip ==
  (probe.fn = "escapeHtml" /\ probe.pc = "read") =>
    probe.unescaped = probe.text

\* the text &amp;amp; was escaped to something else and read back
C14_Witness ==
  /\ probe.fn = "escapeHtml" /\ probe.pc = "read"
  /\ probe.text = <<"&","a","m","p",";","a","m","p",";">>
  /\ probe.escaped = <<"&","a","m","p",";","a","m","p",";","a","m","p",";">>
  /\ probe.unescaped = probe.text


\* C15: a throwing app.documents.length is handled as "no document" by
\* each caller: a generate goes on as a generate without a document (it is
\* not failed, and its document summary is null), and a refresh shows the
\* readout of no document.
C15_ThrowingCheckMeansNoDocument ==
  [][ /\ ( /\ lastEvent'.op \in {"generateFailed", "generateStarted"}
           /\ lastEvent'.detail.fetchDocumentSummary = "throws"
           /\ lastEvent'.detail.simulatePreview # "throws" )
         => /\ lastEvent'.op = "generateStarted"
            /\ generate'.fetch = "done"
            /\ generate'.documentSummary = None
      /\ ( /\ lastEvent'.op = "refreshClicked"
           /\ lastEvent'.detail = "throws" )
         => /\ elements'.documentInfo = NoDocumentText
            /\ refreshes' = refreshes ]_vars


\* sub occurs in s
Contains(s, sub) ==
  \E i \in 0..(Len(s) - Len(sub)) : SubSeq(s, i + 1, i + Len(sub)) = sub

\* the display labels as the preview resolves them
ModelLabel(key) ==
  Lookup(MODEL_LABELS, key, <<"C","u","s","t","o","m"," ","m","o","d","e","l">>)
WorkflowLabel(key) ==
  Lookup(WORKFLOW_LABELS, key, <<"W","o","r","k","f","l","o","w">>)

\* C16: the name of a layer created by apply holds the display label of
\* the Preview Record's model and the display label of its workflow, both
\* resolved through MODEL_LABELS and WORKFLOW_LABELS with the fallbacks the
\* preview uses for unrecognised keys.
C16_LayerNameFromLabels ==
  [][(/\ lastEvent'.op = "applyCreateLayerSettled"
      /\ lastEvent'.detail = "resolves"
      /\ apply.active) =>
       LET pv == Get(state.preview)
           layerName == host'.layers[Len(host'.layers)]
       IN /\ Contains(layerName, ModelLabel(pv.model))
          /\ Contains(layerName, WorkflowLabel(pv.workflow))]_vars


\* the label the specification names for a key: the table's label, or
\* the named fallback for a key that is not in the table
NamedLabel(table, key, fallback) ==
  IF key \in DOMAIN table THEN table[key] ELSE fallback

\* C17: the preview artifact is a function of its inputs: its decoded text
\* holds "Model: <L>", "Workflow: <W>" and "Strength: <s>%", with the table
\* labels or the fallbacks "Custom model" and "Workflow" for keys not in the
\* tables, and two calls with equal inputs give equal artifacts.
C17_ArtifactShowsConfiguration ==
  /\ (probe.fn = "simulatePreview" /\ probe.pc \in {"threw", "returned", "read"}) =>
       probe.first = probe.second
  /\ (probe.fn = "simulatePreview" /\ probe.pc = "read") =>
       /\ Contains(probe.text,
            <<"M","o","d","e","l",":"," ">>
              \o NamedLabel(MODEL_LABELS, probe.elements.modelPicker,
                            <<"C","u","s","t","o","m"," ","m","o","d","e","l">>)
              \o <<NL>>)
       /\ Contains(probe.text,
            <<"W","o","r","k","f","l","o","w",":"," ">>
              \o NamedLabel(WORKFLOW_LABELS, probe.elements.workflowPicker,
                            <<"W","o","r","k","f","l","o","w">>)
              \o <<NL>>)
       /\ Contains(probe.text,
            <<"S","t","r","e","n","g","t","h",":"," ">>
              \o NumberToText(probe.elements.strengthSlider) \o <<"%", NL>>)


\* the fields of a Preview Record
PreviewFields ==
  {"url", "prompt", "model", "workflow", "strength", "preserveSubject",
   "respectMask", "documentSummary"}

\* C18: state.preview is null until the first successful generate; it is
\* written only by a successful generate, as one complete record; once it
\* holds a record it is never null again.
C18_PreviewLifecycle ==
  /\ ~IsSome(state.preview)
  /\ [][/\ state' # state => lastEvent'.op = "generateSucceeded"
        /\ lastEvent'.op = "generateSucceeded" =>
             /\ IsSome(state'.preview)
             /\ DOMAIN Get(state'.preview) = PreviewFields
             /\ Get(state'.preview).url = generate.url
             /\ Get(state'.preview).prompt = generate.prompt
             /\ Get(state'.preview).model \in Models
             /\ Get(state'.preview).workflow \in Workflows
             /\ Get(state'.preview).strength \in Strengths
             /\ Get(state'.preview).preserveSubject \in BOOLEAN
             /\ Get(state'.preview).respectMask \in BOOLEAN
             /\ LET summary == Get(state'.preview).documentSummary
                IN IsSome(summary) =>
                     DOMAIN Get(summary) = {"name", "widthPx", "heightPx",
                                            "resolution", "numberOfLayers"}
        /\ IsSome(state.preview) => IsSome(state'.preview)]_vars

\* a later generate succeeded with no document open and stored a complete
\* record whose document summary is null
C18_Witness ==
  /\ lastEvent.op = "generateSucceeded"
  /\ IsSome(state.preview)
  /\ DOMAIN Get(state.preview) = PreviewFields
  /\ Get(state.preview).documentSummary = None
  /\ nEvents >= 2


\* C19: whenever no generate or apply is busy, the preview image is
\* visible and the placeholder hidden exactly when state.preview holds a
\* record; after a regenerate failed while an earlier preview was held, the
\* earlier image is visible again, not the "Generating preview..."
\* placeholder.
C19_DisplayAgreesWithRecord ==
  (~Generating /\ ~Applying) =>
    /\ ~elements.previewImage.hidden <=> IsSome(state.preview)
    /\ elements.previewPlaceholder.hidden <=> IsSome(state.preview)


\* the configuration lines of the artifact text for a configuration
ConfigurationLines(model, workflow, strength, preserveSubject, respectMask) ==
  <<"M","o","d","e","l",":"," ">> \o ModelLabel(model) \o <<NL>>
  \o <<"W","o","r","k","f","l","o","w",":"," ">> \o WorkflowLabel(workflow) \o <<NL>>
  \o <<"S","t","r","e","n","g","t","h",":"," ">>
  \o NumberToText(strength) \o <<"%", NL>>
  \o <<"P","r","e","s","e","r","v","e"," ","S","u","b","j","e","c","t",":"," ">>
  \o YesNo(preserveSubject) \o <<NL>>
  \o <<"R","e","s","p","e","c","t"," ","M","a","s","k",":"," ">>
  \o YesNo(respectMask) \o <<NL>>

\* C20: in every Preview Record the stored model, workflow, strength and
\* toggles are the ones rendered into the record's own artifact, however
\* control edits interleave with the pending generate.
C20_RecordAgreesWithArtifact ==
  IsSome(state.preview) =>
    LET pv == Get(state.preview)
    IN Contains(ArtifactText(pv.url),
                ConfigurationLines(pv.model, pv.workflow, pv.strength,
                                   pv.preserveSubject, pv.respectMask))


\* the readout text that describes a stored document summary
SummaryText(documentSummary) ==
  IF IsSome(documentSummary) THEN formatDocumentSummary(Get(documentSummary))
  ELSE NoDocumentText

\* s ends with the line break followed by tail
EndsWithLine(s, tail) ==
  /\ Len(s) > Len(tail)
  /\ SubSeq(s, Len(s) - Len(tail), Len(s)) = <<NL>> \o tail

\* C21: in every Preview Record the document description at the end of
\* the artifact text describes the record's stored documentSummary: it is
\* the no-document text exactly when documentSummary is null, and otherwise
\* the formatted text of that summary, whatever happened to the documents
\* between the last refresh and the generate.
C21_ArtifactDescribesSummary ==
  IsSome(state.preview) =>
    LET pv == Get(state.preview)
        text == ArtifactText(pv.url)
    IN /\ EndsWithLine(text, NoDocumentText) <=> ~IsSome(pv.documentSummary)
       /\ EndsWithLine(text, SummaryText(pv.documentSummary))


\* C22: when refreshes overlap (the one of init, Refresh clicks, the one
\* trailing an apply), the result of an earlier-started fetch never
\* overwrites the result of a later-started one; so once all of them have
\* settled, the readout shows the result of the most recently started fetch.
C22_LastStartedRefreshWins == ~writeOrder.stale

====
